---- MODULE Spec2Model ----
(***************************************************************************)
(* A model of src/extract_genarator.py: the synthetic e-commerce dataset   *)
(* generator (generate_fake_data), the local exporter (save_data_to_csv),  *)
(* the remote publisher (upload_to_gcs) and the top-level run (genarator). *)
(*                                                                         *)
(* Text is modelled as sequences of one-character strings where its        *)
(* characters matter (the identifiers), money as integer thousandths of a  *)
(* currency unit ("mills"), so that a value with two decimals is a         *)
(* multiple of 10.  Columns whose values no property reads (name, email,   *)
(* address, ...) appear in the headers but are left out of the rows.       *)
(***************************************************************************)
EXTENDS Integers, Sequences, FiniteSets, TLC

\* ------------------------------------------------------------------ bounds

\* Largest configured NUM_CUSTOMERS / NUM_PRODUCTS / NUM_ORDERS explored when
\* generate_fake_data is run on its own.
MaxCustomers == 2
MaxProducts == 2
MaxOrders == 1
\* Entries other than the three CSV files that DATA_DIR may hold before a run.
MaxExtraEntries == 1
\* Loop indices 0..MaxSmallIndex are formatted as identifiers, besides the
\* indices around the point where the zero-padded width is outgrown.
MaxSmallIndex == 12

\* ------------------------------------------------------- program constants

CustomerIdWidth == 5
ProductIdWidth == 5
OrderIdWidth == 7
QuantityMin == 1
QuantityMax == 5
UniformLow == 5
UniformHigh == 500

\* GCS_SERVICE_ACCOUNT_KEY_PATH = "None": a str of four characters, not the
\* None object.  A Python value is modelled as a record carrying its type.
PyNone == [type |-> "NoneType", val |-> ""]
PyStr(s) == [type |-> "str", val |-> s]
GCS_SERVICE_ACCOUNT_KEY_PATH == PyStr("None")
DATA_DIR == "fake_ecommerce_data"
\* bool(x) of a str or of None, as the `if service_account_key_path:` test uses it.
Truthy(v) == v.type = "str" /\ v.val # ""

\* The keys of the dicts appended to customers / products / orders.
CustomerColumns ==
  <<"customer_id", "name", "email", "address", "city", "state", "zip_code",
    "country", "registration_date">>
ProductColumns ==
  <<"product_id", "product_name", "category", "price", "stock_quantity">>
OrderColumns ==
  <<"order_id", "customer_id", "product_id", "quantity", "unit_price_at_order",
    "amount", "transaction_id", "transaction_type", "order_date",
    "shipping_address", "order_status", "location">>

\* --------------------------------------------------------- pure functions

Range(s) == {s[k] : k \in 1..Len(s)}

DigitChar(d) ==
  CASE d = 0 -> "0" [] d = 1 -> "1" [] d = 2 -> "2" [] d = 3 -> "3"
    [] d = 4 -> "4" [] d = 5 -> "5" [] d = 6 -> "6" [] d = 7 -> "7"
    [] d = 8 -> "8" [] d = 9 -> "9"

\* str(n) of a non-negative int: its decimal digits, most significant first.
RECURSIVE Str(_)
Str(n) == IF n < 10 THEN <<DigitChar(n)>>
          ELSE Str(n \div 10) \o <<DigitChar(n % 10)>>

\* A plausible slip: a fixed-width field that keeps only the last `width`
\* characters.
ZfillTruncating(s, width) ==
  IF Len(s) >= width THEN SubSeq(s, Len(s) - width + 1, Len(s))
  ELSE [k \in 1..(width - Len(s)) |-> "0"] \o s

\* str.zfill(width) of a string of digits: zeros are added on the left up to
\* `width` characters; a longer string is returned unchanged.
Zfill(s, width) ==
  IF Len(s) >= width THEN s
  ELSE [k \in 1..(width - Len(s)) |-> "0"] \o s

\* f"CUST{str(i+1).zfill(5)}" and its siblings, for the loop variable i.
CustomerId(i) == <<"C", "U", "S", "T">> \o Zfill(Str(i + 1), CustomerIdWidth)
ProductId(i) == <<"P", "R", "O", "D">> \o Zfill(Str(i + 1), ProductIdWidth)
OrderId(i) == <<"O", "R", "D">> \o Zfill(Str(i + 1), OrderIdWidth)

\* round(x, 2) of a float given in mills: the nearest multiple of 10.  The
\* values drawn below are never exactly half way.
Round2(x) ==
  IF x % 10 >= 5 THEN x - (x % 10) + 10 ELSE x - (x % 10)

\* What random.uniform(5.0, 500.0) may return, in mills: values near both
\* ends of the interval, one rounding down and one rounding up.
UniformDraws == {UniformLow * 1000 + 4, UniformHigh * 1000 - 4}

\* The inexactness of the float product product_price * quantity, in mills:
\* an over-approximation, the true error being far below one mill.
FloatError == {-1, 0, 1}

\* What fake.city() may return.
Cities == {"Austin", "Boston"}

\* A plausible slip: the product is stored as the float it is, unrounded.
OrderAmountUnrounded(product_price, quantity, err) ==
  product_price * quantity + err

\* amount = round(product_price * quantity, 2)
OrderAmount(product_price, quantity, err) ==
  Round2(product_price * quantity + err)

\* A plausible slip: an index drawn from one position too many.
RandomChoicePastEnd(s) == Range(s) \cup {CustomerId(Len(s))}

\* random.choice(seq): any element of a non-empty list.
RandomChoice(s) == Range(s)

\* pd.DataFrame(rows): the columns are the keys of the dicts, and a DataFrame
\* built from an empty list has no columns at all.
DataFrame(rows, keys) ==
  [columns |-> IF rows = <<>> THEN <<>> ELSE keys, rows |-> rows]

\* df.set_index(key)[value].to_dict(): for each key the value of the last row
\* that carries it.
ToDict(df, key, value) ==
  [k \in {df.rows[n][key] : n \in 1..Len(df.rows)} |->
     LET last == CHOOSE n \in 1..Len(df.rows) :
                   /\ df.rows[n][key] = k
                   /\ \A m \in (n + 1)..Len(df.rows) : df.rows[m][key] # k
     IN  df.rows[last][value]]

\* A plausible slip: the default wins over the stored value.
DictGetDefault(d, k, default) == default

\* d.get(k, default)
DictGet(d, k, default) == IF k \in DOMAIN d THEN d[k] ELSE default

\* ------------------------------------------------------------------ state

VARIABLES
  entry,          \* the function that was called: generate_fake_data or genarator
  pc,             \* the statement about to run; "returned" / "raised" at the end
  exc,            \* the exception in flight or propagated, "none" otherwise
  stdout,         \* the messages print() has emitted
  NUM_CUSTOMERS, NUM_PRODUCTS, NUM_ORDERS,
  service_account_key_path,
  customers, products, orders,             \* the lists of row dicts
  customers_df, products_df, orders_df,
  customer_ids, product_details, customer_locations,
  dir_kind,       \* what DATA_DIR is on disk: "absent", "file" or "dir"
  dir_entries,    \* the entries of DATA_DIR, by name
  credential_loads, \* the paths handed to from_service_account_file
  storage_client, \* how upload_to_gcs built its client
  listing,        \* what os.listdir(source_directory) returned
  visited,        \* how many names of `listing` the loop has taken
  uploads,        \* the blob paths written to the bucket, in order
  fmt_in, fmt_out \* identifier formatting on its own: loop indices and ids

config_vars == <<NUM_CUSTOMERS, NUM_PRODUCTS, NUM_ORDERS, service_account_key_path>>
gen_vars == <<customers, products, orders, customers_df, products_df, orders_df,
              customer_ids, product_details, customer_locations>>
fs_vars == <<dir_kind, dir_entries>>
upload_vars == <<credential_loads, storage_client, listing, visited, uploads>>
fmt_vars == <<fmt_in, fmt_out>>
vars == <<entry, pc, exc, stdout, config_vars, gen_vars, fs_vars, upload_vars,
          fmt_vars>>

NoFrame == [columns |-> <<>>, rows |-> <<>>]

\* The state shared by every entry point before its first statement.
Blank ==
  /\ exc = "none"
  /\ stdout = <<>>
  /\ customers = <<>> /\ products = <<>> /\ orders = <<>>
  /\ customers_df = NoFrame /\ products_df = NoFrame /\ orders_df = NoFrame
  /\ customer_ids = <<>>
  /\ product_details = <<>>
  /\ customer_locations = <<>>
  /\ credential_loads = <<>>
  /\ storage_client = "unset"
  /\ listing = <<>>
  /\ visited = 0
  /\ uploads = <<>>

\* ------------------------------------------------------ generate_fake_data

\* One iteration of `for i in range(NUM_CUSTOMERS)`.
generate_customer ==
  /\ pc = "gen_customers"
  /\ Len(customers) < NUM_CUSTOMERS
  /\ \E city \in Cities :
       customers' = Append(customers,
                           [customer_id |-> CustomerId(Len(customers)),
                            city |-> city])
  /\ UNCHANGED <<entry, pc, exc, stdout, config_vars, products, orders,
                 customers_df, products_df, orders_df, customer_ids,
                 product_details, customer_locations, fs_vars, upload_vars,
                 fmt_vars>>

\* fake.unique.email() gives up finding a value it has not returned before.
customer_email_exhausted ==
  /\ pc = "gen_customers"
  /\ Len(customers) < NUM_CUSTOMERS
  /\ Len(customers) >= 1
  /\ exc' = "UniquenessException"
  /\ pc' = "raised"
  /\ UNCHANGED <<entry, stdout, config_vars, gen_vars, fs_vars, upload_vars,
                 fmt_vars>>

\* The loop is over: customers_df = pd.DataFrame(customers).
customers_done ==
  /\ pc = "gen_customers"
  /\ Len(customers) = NUM_CUSTOMERS
  /\ customers_df' = DataFrame(customers, CustomerColumns)
  /\ stdout' = Append(stdout, "Generated customers")
  /\ pc' = "gen_products"
  /\ UNCHANGED <<entry, exc, config_vars, customers, products, orders,
                 products_df, orders_df, customer_ids, product_details,
                 customer_locations, fs_vars, upload_vars, fmt_vars>>

\* One iteration of `for i in range(NUM_PRODUCTS)`.
generate_product ==
  /\ pc = "gen_products"
  /\ Len(products) < NUM_PRODUCTS
  /\ \E u \in UniformDraws :
       products' = Append(products,
                          [product_id |-> ProductId(Len(products)),
                           price |-> Round2(u)])
  /\ UNCHANGED <<entry, pc, exc, stdout, config_vars, customers, orders,
                 customers_df, products_df, orders_df, customer_ids,
                 product_details, customer_locations, fs_vars, upload_vars,
                 fmt_vars>>

\* fake.unique.word() gives up finding a value it has not returned before.
product_word_exhausted ==
  /\ pc = "gen_products"
  /\ Len(products) < NUM_PRODUCTS
  /\ Len(products) >= 1
  /\ exc' = "UniquenessException"
  /\ pc' = "raised"
  /\ UNCHANGED <<entry, stdout, config_vars, gen_vars, fs_vars, upload_vars,
                 fmt_vars>>

products_done ==
  /\ pc = "gen_products"
  /\ Len(products) = NUM_PRODUCTS
  /\ products_df' = DataFrame(products, ProductColumns)
  /\ stdout' = Append(stdout, "Generated products")
  /\ pc' = "lookups"
  /\ UNCHANGED <<entry, exc, config_vars, customers, products, orders,
                 customers_df, orders_df, customer_ids, product_details,
                 customer_locations, fs_vars, upload_vars, fmt_vars>>

\* customer_ids, product_details and customer_locations are read off the two
\* frames; a frame without the column raises KeyError.
build_lookups ==
  /\ pc = "lookups"
  /\ IF \/ "customer_id" \notin Range(customers_df.columns)
        \/ "product_id" \notin Range(products_df.columns)
     THEN /\ exc' = "KeyError"
          /\ pc' = "raised"
          /\ UNCHANGED <<customer_ids, product_details, customer_locations>>
     ELSE /\ customer_ids' = [n \in 1..Len(customers_df.rows) |->
                                customers_df.rows[n].customer_id]
          /\ product_details' = ToDict(products_df, "product_id", "price")
          /\ customer_locations' = ToDict(customers_df, "customer_id", "city")
          /\ pc' = "gen_orders"
          /\ exc' = exc
  /\ UNCHANGED <<entry, stdout, config_vars, customers, products, orders,
                 customers_df, products_df, orders_df, fs_vars, upload_vars,
                 fmt_vars>>

\* One iteration of `for i in range(NUM_ORDERS)`.
generate_order ==
  /\ pc = "gen_orders"
  /\ Len(orders) < NUM_ORDERS
  /\ \E customer_id \in RandomChoice(customer_ids),
        product_id \in DOMAIN product_details,
        quantity \in QuantityMin..QuantityMax,
        err \in FloatError,
        fallback_city \in Cities :
       LET product_price == product_details[product_id]
       IN  orders' =
             Append(orders,
                    [order_id |-> OrderId(Len(orders)),
                     customer_id |-> customer_id,
                     product_id |-> product_id,
                     quantity |-> quantity,
                     unit_price_at_order |-> product_price,
                     amount |-> OrderAmount(product_price, quantity, err),
                     location |-> DictGet(customer_locations, customer_id,
                                          fallback_city)])
  /\ UNCHANGED <<entry, pc, exc, stdout, config_vars, customers, products,
                 customers_df, products_df, orders_df, customer_ids,
                 product_details, customer_locations, fs_vars, upload_vars,
                 fmt_vars>>

\* The loop is over: orders_df is built and the three frames are returned,
\* to genarator's next statement when genarator made the call.
orders_done ==
  /\ pc = "gen_orders"
  /\ Len(orders) = NUM_ORDERS
  /\ orders_df' = DataFrame(orders, OrderColumns)
  /\ stdout' = Append(stdout, "Generated orders")
  /\ pc' = IF entry = "genarator" THEN "makedirs" ELSE "returned"
  /\ UNCHANGED <<entry, exc, config_vars, customers, products, orders,
                 customers_df, products_df, customer_ids, product_details,
                 customer_locations, fs_vars, upload_vars, fmt_vars>>

generate_fake_data ==
  \/ generate_customer
  \/ customer_email_exhausted
  \/ customers_done
  \/ generate_product
  \/ product_word_exhausted
  \/ products_done
  \/ build_lookups
  \/ generate_order
  \/ orders_done

\* generate_fake_data called on its own, for every configured count.
GenInit ==
  /\ entry = "generate_fake_data"
  /\ pc = "gen_customers"
  /\ NUM_CUSTOMERS \in 0..MaxCustomers
  /\ NUM_PRODUCTS \in 0..MaxProducts
  /\ NUM_ORDERS \in 0..MaxOrders
  /\ service_account_key_path = GCS_SERVICE_ACCOUNT_KEY_PATH
  /\ Blank
  /\ dir_kind = "absent"
  /\ dir_entries = [n \in {} |-> 0]
  /\ fmt_in = <<>>
  /\ fmt_out = <<>>

GenSpec == GenInit /\ [][generate_fake_data]_vars

\* -------------------------------------------------------- save_data_to_csv

CsvNames == {"customers.csv", "products.csv", "orders.csv"}

\* df.to_csv(path, index=False): one line of column names, then one line per
\* row; a frame without columns gives a single empty line.
ToCsv(df) ==
  <<[kind |-> "header", fields |-> df.columns]>>
    \o [n \in 1..Len(df.rows) |-> [kind |-> "data", fields |-> df.rows[n]]]

File(lines) == [kind |-> "file", content |-> lines]
Directory == [kind |-> "dir", content |-> <<>>]

\* os.path.isfile(os.path.join(source_directory, filename))
IsFile(entries, name) == name \in DOMAIN entries /\ entries[name].kind = "file"

\* print(...); os.makedirs(DATA_DIR, exist_ok=True)
makedirs ==
  /\ pc = "makedirs"
  /\ stdout' = Append(stdout, "Saving data to local directory")
  /\ IF dir_kind = "file"
     THEN /\ exc' = "FileExistsError"
          /\ pc' = "raised"
          /\ UNCHANGED dir_kind
     ELSE /\ dir_kind' = "dir"
          /\ pc' = "write_customers"
          /\ exc' = exc
  /\ UNCHANGED <<entry, config_vars, gen_vars, dir_entries, upload_vars,
                 fmt_vars>>

\* A plausible slip: a failed write is passed over and the run goes on.
WriteCsvLenient(at, name, df, next, said) ==
  /\ pc = at
  /\ IF name \in DOMAIN dir_entries /\ dir_entries[name].kind = "dir"
     THEN UNCHANGED <<dir_entries, exc>>
     ELSE /\ dir_entries' = (name :> File(ToCsv(df))) @@ dir_entries
          /\ exc' = exc
  /\ pc' = next
  /\ stdout' = stdout \o said
  /\ UNCHANGED <<entry, config_vars, gen_vars, dir_kind, upload_vars, fmt_vars>>

\* df.to_csv(os.path.join(DATA_DIR, name), index=False): the file is opened
\* for writing, which truncates it, and opening a directory raises.
WriteCsv(at, name, df, next, said) ==
  /\ pc = at
  /\ IF name \in DOMAIN dir_entries /\ dir_entries[name].kind = "dir"
     THEN /\ exc' = "IsADirectoryError"
          /\ pc' = "raised"
          /\ UNCHANGED <<dir_entries, stdout>>
     ELSE /\ dir_entries' = (name :> File(ToCsv(df))) @@ dir_entries
          /\ pc' = next
          /\ stdout' = stdout \o said
          /\ exc' = exc
  /\ UNCHANGED <<entry, config_vars, gen_vars, dir_kind, upload_vars, fmt_vars>>

write_customers ==
  WriteCsv("write_customers", "customers.csv", customers_df, "write_products", <<>>)
write_products ==
  WriteCsv("write_products", "products.csv", products_df, "write_orders", <<>>)
\* After the last file the function prints and returns; genarator then calls
\* upload_to_gcs.
write_orders ==
  WriteCsv("write_orders", "orders.csv", orders_df, "auth",
           <<"Data saved successfully as CSV files.">>)

save_data_to_csv ==
  \/ makedirs
  \/ write_customers
  \/ write_products
  \/ write_orders

\* ----------------------------------------------------------- upload_to_gcs

\* A plausible slip: the key is built from the local path, directory included.
BlobPathLocal(filename) == "ecommerce_data/" \o DATA_DIR \o "/" \o filename

\* blob_path = f"ecommerce_data/{filename}"
BlobPath(filename) == "ecommerce_data/" \o filename

\* The `if service_account_key_path:` branch: the key file is loaded and the
\* client built from it; a failure of either is re-raised as Exception.
auth_service_account ==
  /\ pc = "auth"
  /\ Truthy(service_account_key_path)
  /\ credential_loads' = Append(credential_loads, service_account_key_path.val)
  /\ \/ /\ storage_client' = "service_account"
        /\ pc' = "listdir"
        /\ exc' = exc
     \/ /\ exc' = "Exception: Failed to load service account credentials"
        /\ pc' = "except"
        /\ UNCHANGED storage_client
  /\ stdout' = stdout \o <<"Attempting to upload files",
                           "Authenticating with service account key">>
  /\ UNCHANGED <<entry, config_vars, gen_vars, fs_vars, listing, visited,
                 uploads, fmt_vars>>

\* The else branch: storage.Client(project=project_id) on the ambient
\* credentials, which raises when there are none.
auth_default ==
  /\ pc = "auth"
  /\ ~Truthy(service_account_key_path)
  /\ \/ /\ storage_client' = "application_default"
        /\ pc' = "listdir"
        /\ exc' = exc
     \/ /\ exc' = "DefaultCredentialsError"
        /\ pc' = "except"
        /\ UNCHANGED storage_client
  /\ stdout' = stdout \o <<"Attempting to upload files",
                           "Authenticating using Application Default Credentials">>
  /\ UNCHANGED <<entry, config_vars, gen_vars, fs_vars, credential_loads,
                 listing, visited, uploads, fmt_vars>>

\* The orders os.listdir may return the names of a directory in.
Listings(names) ==
  {s \in [1..Cardinality(names) -> names] :
     \A a, b \in 1..Cardinality(names) : a # b => s[a] # s[b]}

\* bucket = storage_client.bucket(bucket_name); os.listdir(source_directory)
listdir ==
  /\ pc = "listdir"
  /\ listing' \in Listings(DOMAIN dir_entries)
  /\ visited' = 0
  /\ pc' = "upload_loop"
  /\ UNCHANGED <<entry, exc, stdout, config_vars, gen_vars, fs_vars,
                 credential_loads, storage_client, uploads, fmt_vars>>

\* A loop iteration on a regular file whose upload succeeds.
upload_file ==
  /\ pc = "upload_loop"
  /\ visited < Len(listing)
  /\ IsFile(dir_entries, listing[visited + 1])
  /\ uploads' = Append(uploads, BlobPath(listing[visited + 1]))
  /\ stdout' = Append(stdout, "Uploaded " \o listing[visited + 1])
  /\ visited' = visited + 1
  /\ UNCHANGED <<entry, pc, exc, config_vars, gen_vars, fs_vars,
                 credential_loads, storage_client, listing, fmt_vars>>

\* A plausible slip: a failed file is skipped and the loop goes on.
upload_file_fails_skipping ==
  /\ pc = "upload_loop"
  /\ visited < Len(listing)
  /\ IsFile(dir_entries, listing[visited + 1])
  /\ visited' = visited + 1
  /\ stdout' = Append(stdout, "Error: upload failed")
  /\ UNCHANGED <<entry, pc, exc, config_vars, gen_vars, fs_vars,
                 credential_loads, storage_client, listing, uploads, fmt_vars>>

\* A loop iteration on a regular file whose blob.upload_from_filename raises:
\* the exception leaves the loop and the function.
upload_file_fails ==
  /\ pc = "upload_loop"
  /\ visited < Len(listing)
  /\ IsFile(dir_entries, listing[visited + 1])
  /\ exc' = "UploadError"
  /\ pc' = "except"
  /\ UNCHANGED <<entry, stdout, config_vars, gen_vars, fs_vars, upload_vars,
                 fmt_vars>>

\* A loop iteration on a name that is not a regular file: nothing is done.
skip_non_file ==
  /\ pc = "upload_loop"
  /\ visited < Len(listing)
  /\ ~IsFile(dir_entries, listing[visited + 1])
  /\ visited' = visited + 1
  /\ UNCHANGED <<entry, pc, exc, stdout, config_vars, gen_vars, fs_vars,
                 credential_loads, storage_client, listing, uploads, fmt_vars>>

\* The loop is over: the function prints and returns, and so does genarator.
upload_finished ==
  /\ pc = "upload_loop"
  /\ visited = Len(listing)
  /\ stdout' = Append(stdout, "All files uploaded to GCS.")
  /\ pc' = "returned"
  /\ UNCHANGED <<entry, exc, config_vars, gen_vars, fs_vars, upload_vars,
                 fmt_vars>>

upload_to_gcs ==
  \/ auth_service_account
  \/ auth_default
  \/ listdir
  \/ upload_file
  \/ upload_file_fails
  \/ skip_non_file
  \/ upload_finished

\* --------------------------------------------------------------- genarator

\* A plausible slip: the handler logs and raises again.
genarator_except_reraising ==
  /\ pc = "except"
  /\ stdout' = stdout \o <<"An error occurred during GCS upload.", "Error: " \o exc>>
  /\ pc' = "raised"
  /\ UNCHANGED <<entry, exc, config_vars, gen_vars, fs_vars, upload_vars,
                 fmt_vars>>

\* `except Exception as e`: two messages are printed and genarator returns.
genarator_except ==
  /\ pc = "except"
  /\ stdout' = stdout \o <<"An error occurred during GCS upload.", "Error: " \o exc>>
  /\ exc' = "none"
  /\ pc' = "returned"
  /\ UNCHANGED <<entry, config_vars, gen_vars, fs_vars, upload_vars, fmt_vars>>

\* The configured counts <<NUM_CUSTOMERS, NUM_PRODUCTS, NUM_ORDERS>> a whole
\* run is explored with: every count absent or single, and a second customer
\* or product so that the unique-value pools can run out.
RunCounts ==
  ({0, 1} \X {0, 1} \X {0, 1}) \cup {<<2, 1, 0>>, <<1, 2, 0>>}

\* The settings of the key path a run is explored with: the module's value,
\* the None object its comment speaks of, and a key file.
KeyPathSettings == {GCS_SERVICE_ACCOUNT_KEY_PATH, PyNone, PyStr("key.json")}

ExtraName(k) == "extra_" \o DigitChar(k)

StaleCsv ==
  File(<<[kind |-> "header", fields |-> <<"stale">>],
         [kind |-> "data", fields |-> <<"stale">>],
         [kind |-> "data", fields |-> <<"stale">>]>>)

\* What the three CSV names may be in DATA_DIR before the run: nothing, the
\* files of an earlier run, or a directory in the place of products.csv.
PriorCsvEntries ==
  {[n \in {} |-> Directory],
   [n \in CsvNames |-> StaleCsv],
   [n \in {"products.csv"} |-> Directory]}

\* What else DATA_DIR may hold before the run: regular files and
\* subdirectories.
PriorExtraEntries ==
  UNION {[{ExtraName(k) : k \in 1..n} -> {File(<<>>), Directory}] :
           n \in 0..MaxExtraEntries}

\* A whole run of genarator, from every configuration and every directory.
Init ==
  /\ entry = "genarator"
  /\ pc = "gen_customers"
  /\ \E counts \in RunCounts :
       /\ NUM_CUSTOMERS = counts[1]
       /\ NUM_PRODUCTS = counts[2]
       /\ NUM_ORDERS = counts[3]
  /\ service_account_key_path \in KeyPathSettings
  /\ Blank
  /\ \/ /\ dir_kind \in {"absent", "file"}
        /\ dir_entries = [n \in {} |-> Directory]
     \/ /\ dir_kind = "dir"
        /\ \E csv \in PriorCsvEntries, extra \in PriorExtraEntries :
             dir_entries = csv @@ extra
  /\ fmt_in = <<>>
  /\ fmt_out = <<>>

Next ==
  \/ generate_fake_data
  \/ save_data_to_csv
  \/ upload_to_gcs
  \/ genarator_except

Spec == Init /\ [][Next]_vars

\* -------------------------------------------- identifier formatting alone

RECURSIVE Pow10(_)
Pow10(n) == IF n = 0 THEN 1 ELSE 10 * Pow10(n - 1)

\* The loop indices formatted: the first ones, and those around the index
\* whose number no longer fits the padded width.
IndexSamples ==
  (0..MaxSmallIndex)
    \cup {Pow10(w) - 3 + d : w \in {CustomerIdWidth, OrderIdWidth}, d \in 0..2}

\* The three identifier expressions applied to two loop indices.
format_ids ==
  /\ pc = "format"
  /\ fmt_out' = [k \in 1..2 |->
                   [customer_id |-> CustomerId(fmt_in[k]),
                    product_id |-> ProductId(fmt_in[k]),
                    order_id |-> OrderId(fmt_in[k])]]
  /\ pc' = "returned"
  /\ UNCHANGED <<entry, exc, stdout, config_vars, gen_vars, fs_vars,
                 upload_vars, fmt_in>>

IdInit ==
  /\ entry = "format_ids"
  /\ pc = "format"
  /\ NUM_CUSTOMERS = 0 /\ NUM_PRODUCTS = 0 /\ NUM_ORDERS = 0
  /\ service_account_key_path = GCS_SERVICE_ACCOUNT_KEY_PATH
  /\ Blank
  /\ dir_kind = "absent"
  /\ dir_entries = [n \in {} |-> 0]
  /\ fmt_in \in IndexSamples \X IndexSamples
  /\ fmt_out = <<>>

IdSpec == IdInit /\ [][format_ids]_vars

\* ------------------------------------------------------------- properties

SavePositions == {"makedirs", "write_customers", "write_products", "write_orders"}
UploadPositions == {"auth", "listdir", "upload_loop", "except"}
Printed(msg) == msg \in Range(stdout)
\* Some step of upload_to_gcs has run.
UploadStarted ==
  \/ Printed("Attempting to upload files")
  \/ credential_loads # <<>>
  \/ storage_client # "unset"
  \/ listing # <<>>
  \/ uploads # <<>>
UploadCompleted == pc = "returned" /\ Printed("All files uploaded to GCS.")
UploadFailed == pc = "returned" /\ Printed("An error occurred during GCS upload.")
HasRow(df, key, id) == \E n \in 1..Len(df.rows) : df.rows[n][key] = id

\* C1: every order row returned by generate_fake_data carries the customer_id
\* of some returned customer row and the product_id of some returned product
\* row.
C1_ReferentialIntegrity ==
  pc = "returned" =>
    \A n \in 1..Len(orders_df.rows) :
      /\ HasRow(customers_df, "customer_id", orders_df.rows[n].customer_id)
      /\ HasRow(products_df, "product_id", orders_df.rows[n].product_id)

\* An order of a two-customer, two-product run that refers to the second of each.
C1_Witness ==
  /\ pc = "returned"
  /\ Len(customers_df.rows) = 2
  /\ Len(products_df.rows) = 2
  /\ Len(orders_df.rows) >= 1
  /\ orders_df.rows[1].customer_id = customers_df.rows[2].customer_id
  /\ orders_df.rows[1].product_id = products_df.rows[2].product_id

\* C2: once upload_to_gcs has been entered no exception leaves genarator: a
\* failure while loading credentials, building the client or uploading a file
\* ends in a normal return after the error messages were printed.
C2_UploadFailureContained ==
  /\ UploadStarted => pc # "raised"
  /\ (pc = "returned" /\ UploadStarted /\ ~Printed("All files uploaded to GCS.")) =>
       /\ Printed("An error occurred during GCS upload.")
       /\ \E m \in Range(stdout) : m \in {"Error: UploadError",
              "Error: DefaultCredentialsError",
              "Error: Exception: Failed to load service account credentials"}
       /\ exc = "none"

\* A run that returned normally after the credentials could not be loaded.
C2_Witness ==
  /\ UploadFailed
  /\ credential_loads # <<>>
  /\ storage_client = "unset"
  /\ Printed("Error: Exception: Failed to load service account credentials")

TableOf(name) ==
  CASE name = "customers.csv" -> customers_df
    [] name = "products.csv" -> products_df
    [] name = "orders.csv" -> orders_df
AllGenerated ==
  /\ Len(customers_df.rows) = NUM_CUSTOMERS
  /\ Len(products_df.rows) = NUM_PRODUCTS
  /\ Len(orders_df.rows) = NUM_ORDERS
  /\ Printed("Generated orders")
AllWritten ==
  /\ dir_kind = "dir"
  /\ \A name \in CsvNames :
       /\ name \in DOMAIN dir_entries
       /\ dir_entries[name] =
            [kind |-> "file",
             content |-> <<[kind |-> "header", fields |-> TableOf(name).columns]>>
                           \o [n \in 1..Len(TableOf(name).rows) |->
                                 [kind |-> "data", fields |-> TableOf(name).rows[n]]]]

\* C3: genarator generates, then saves, then uploads: saving starts only when
\* the three tables are complete, uploading only when the three files are
\* written, and an error of generation or saving leaves genarator with no
\* step of the upload taken.
C3_PhaseOrder ==
  /\ pc \in SavePositions \cup UploadPositions => AllGenerated
  /\ (entry = "genarator" /\ pc = "returned") => AllGenerated
  /\ pc \in UploadPositions => AllWritten
  /\ (entry = "genarator" /\ pc = "returned") => AllWritten
  /\ UploadStarted => pc \in UploadPositions \cup {"returned"}
  /\ exc \in {"UniquenessException", "KeyError", "FileExistsError",
              "IsADirectoryError"} => pc = "raised"
  /\ pc = "raised" => ~UploadStarted

\* A run aborted while saving, after customers.csv was written.
C3_Witness ==
  /\ entry = "genarator"
  /\ pc = "raised"
  /\ exc = "IsADirectoryError"
  /\ IsFile(dir_entries, "customers.csv")
  /\ Len(dir_entries["customers.csv"].content) = 1 + NUM_CUSTOMERS
  /\ ~UploadStarted

\* C4: the client is built from the key file when one is provided and from
\* the ambient default credentials otherwise; with the key path left at the
\* module's value no key file is loaded.
C4_CredentialResolution ==
  /\ storage_client = "service_account" =>
       credential_loads = <<service_account_key_path.val>>
  /\ storage_client = "application_default" => credential_loads = <<>>
  /\ (entry = "genarator"
        /\ service_account_key_path = GCS_SERVICE_ACCOUNT_KEY_PATH) =>
       /\ credential_loads = <<>>
       /\ storage_client \in {"unset", "application_default"}

\* C5: in every returned order row the amount is the unit price times the
\* quantity in whole cents, and the quantity is an integer of 1..5.
C5_AmountAndQuantity ==
  pc = "returned" =>
    \A n \in 1..Len(orders_df.rows) :
      LET o == orders_df.rows[n]
      IN  /\ o.quantity \in 1..5
          /\ o.unit_price_at_order % 10 = 0
          /\ o.amount % 10 = 0
          /\ o.amount \div 10 = (o.unit_price_at_order \div 10) * o.quantity

\* An order of five units of a product priced 500.00.
C5_Witness ==
  /\ pc = "returned"
  /\ Len(orders_df.rows) >= 1
  /\ orders_df.rows[1].quantity = 5
  /\ orders_df.rows[1].unit_price_at_order = 500000
  /\ orders_df.rows[1].amount = 2500000

DigitChars == {"0", "1", "2", "3", "4", "5", "6", "7", "8", "9"}
DigitOf(c) ==
  CASE c = "0" -> 0 [] c = "1" -> 1 [] c = "2" -> 2 [] c = "3" -> 3
    [] c = "4" -> 4 [] c = "5" -> 5 [] c = "6" -> 6 [] c = "7" -> 7
    [] c = "8" -> 8 [] c = "9" -> 9
RECURSIVE Decimal(_)
Decimal(s) ==
  IF s = <<>> THEN 0
  ELSE 10 * Decimal(SubSeq(s, 1, Len(s) - 1)) + DigitOf(s[Len(s)])
\* `id` is `prefix` followed by the number `number` in decimal digits.
Numbered(id, prefix, number) ==
  /\ Len(id) > Len(prefix)
  /\ SubSeq(id, 1, Len(prefix)) = prefix
  /\ \A k \in (Len(prefix) + 1)..Len(id) : id[k] \in DigitChars
  /\ Decimal(SubSeq(id, Len(prefix) + 1, Len(id))) = number
\* ... in exactly `width` digits.
FixedWidth(id, prefix, width) == Len(id) = Len(prefix) + width
\* ... in `width` digits when the number fits, and in its own digits, without
\* a leading zero, when it does not.
PaddedWidth(id, prefix, width, number) ==
  IF number < Pow10(width) THEN Len(id) = Len(prefix) + width
  ELSE Len(id) > Len(prefix) + width /\ id[Len(prefix) + 1] # "0"

\* C6 as stated: the i-th customer, product and order (loop index i - 1) are
\* numbered i in exactly 5, 5 and 7 digits after CUST, PROD and ORD, and two
\* rows of a table never share an id.
C6_FixedWidthIds ==
  pc = "returned" /\ entry = "format_ids" =>
    /\ \A k \in 1..2 :
         /\ Numbered(fmt_out[k].customer_id, <<"C", "U", "S", "T">>, fmt_in[k] + 1)
         /\ Numbered(fmt_out[k].product_id, <<"P", "R", "O", "D">>, fmt_in[k] + 1)
         /\ Numbered(fmt_out[k].order_id, <<"O", "R", "D">>, fmt_in[k] + 1)
         /\ FixedWidth(fmt_out[k].customer_id, <<"C", "U", "S", "T">>, 5)
         /\ FixedWidth(fmt_out[k].product_id, <<"P", "R", "O", "D">>, 5)
         /\ FixedWidth(fmt_out[k].order_id, <<"O", "R", "D">>, 7)
    /\ fmt_in[1] # fmt_in[2] =>
         /\ fmt_out[1].customer_id # fmt_out[2].customer_id
         /\ fmt_out[1].product_id # fmt_out[2].product_id
         /\ fmt_out[1].order_id # fmt_out[2].order_id

\* C6 as amended: the ids are numbered sequentially and are unique, in 5, 5
\* and 7 digits as long as the number fits that width and in the number's own
\* digits beyond.
C6_PaddedIds ==
  pc = "returned" /\ entry = "format_ids" =>
    /\ \A k \in 1..2 :
         /\ Numbered(fmt_out[k].customer_id, <<"C", "U", "S", "T">>, fmt_in[k] + 1)
         /\ Numbered(fmt_out[k].product_id, <<"P", "R", "O", "D">>, fmt_in[k] + 1)
         /\ Numbered(fmt_out[k].order_id, <<"O", "R", "D">>, fmt_in[k] + 1)
         /\ PaddedWidth(fmt_out[k].customer_id, <<"C", "U", "S", "T">>, 5,
                        fmt_in[k] + 1)
         /\ PaddedWidth(fmt_out[k].product_id, <<"P", "R", "O", "D">>, 5,
                        fmt_in[k] + 1)
         /\ PaddedWidth(fmt_out[k].order_id, <<"O", "R", "D">>, 7, fmt_in[k] + 1)
    /\ fmt_in[1] # fmt_in[2] =>
         /\ fmt_out[1].customer_id # fmt_out[2].customer_id
         /\ fmt_out[1].product_id # fmt_out[2].product_id
         /\ fmt_out[1].order_id # fmt_out[2].order_id

\* The 99,999th and the 100,000th identifiers, formatted.
C6_Witness ==
  /\ pc = "returned"
  /\ entry = "format_ids"
  /\ fmt_in = <<99998, 99999>>
  /\ fmt_out[1].customer_id = <<"C", "U", "S", "T", "9", "9", "9", "9", "9">>
  /\ fmt_out[2].customer_id = <<"C", "U", "S", "T", "1", "0", "0", "0", "0", "0">>
  /\ fmt_out[1].order_id = <<"O", "R", "D", "0", "0", "9", "9", "9", "9", "9">>

ColumnsOf(name) ==
  CASE name = "customers.csv" -> CustomerColumns
    [] name = "products.csv" -> ProductColumns
    [] name = "orders.csv" -> OrderColumns
RequestedOf(name) ==
  CASE name = "customers.csv" -> NUM_CUSTOMERS
    [] name = "products.csv" -> NUM_PRODUCTS
    [] name = "orders.csv" -> NUM_ORDERS

\* C7: once generate_fake_data and save_data_to_csv have run, each of
\* customers.csv, products.csv and orders.csv is a file made of one header
\* row of the table's field names and exactly the requested number of data
\* rows, whatever the directory held before.
C7_ExportedFiles ==
  pc \in UploadPositions \cup {"returned"} =>
    \A name \in CsvNames :
      /\ IsFile(dir_entries, name)
      /\ LET lines == dir_entries[name].content
         IN  /\ Len(lines) = 1 + RequestedOf(name)
             /\ lines[1] = [kind |-> "header", fields |-> ColumnsOf(name)]
             /\ \A n \in 2..Len(lines) : lines[n].kind = "data"

\* C8: when upload_to_gcs completes, the keys written are exactly
\* ecommerce_data/<name> for the regular files directly inside the directory,
\* each written once.
C8_UploadedKeys ==
  UploadCompleted =>
    LET files == {f \in DOMAIN dir_entries : dir_entries[f].kind = "file"}
    IN  /\ Range(uploads) = {"ecommerce_data/" \o f : f \in files}
        /\ Len(uploads) = Cardinality(files)

\* A completed upload from a directory that holds a subdirectory.
C8_Witness ==
  /\ UploadCompleted
  /\ \E f \in DOMAIN dir_entries : dir_entries[f].kind = "dir"
  /\ Len(uploads) = 3

\* C9: in every returned order row unit_price_at_order is the price of the
\* product row with the order's product_id and location is the city of the
\* customer row with the order's customer_id, both rows existing.
C9_SnapshotFields ==
  pc = "returned" =>
    \A n \in 1..Len(orders_df.rows) :
      LET o == orders_df.rows[n]
      IN  /\ \E p \in 1..Len(products_df.rows) :
               /\ products_df.rows[p].product_id = o.product_id
               /\ products_df.rows[p].price = o.unit_price_at_order
          /\ \E c \in 1..Len(customers_df.rows) :
               /\ customers_df.rows[c].customer_id = o.customer_id
               /\ customers_df.rows[c].city = o.location
          /\ \A p \in 1..Len(products_df.rows) :
               products_df.rows[p].product_id = o.product_id =>
                 products_df.rows[p].price = o.unit_price_at_order
          /\ \A c \in 1..Len(customers_df.rows) :
               customers_df.rows[c].customer_id = o.customer_id =>
                 customers_df.rows[c].city = o.location

\* An order on the second customer and second product, whose city and price
\* differ from the first's.
C9_Witness ==
  /\ pc = "returned"
  /\ Len(customers_df.rows) = 2
  /\ Len(products_df.rows) = 2
  /\ customers_df.rows[1].city # customers_df.rows[2].city
  /\ products_df.rows[1].price # products_df.rows[2].price
  /\ Len(orders_df.rows) >= 1
  /\ orders_df.rows[1].customer_id = customers_df.rows[2].customer_id
  /\ orders_df.rows[1].location = customers_df.rows[2].city
  /\ orders_df.rows[1].product_id = products_df.rows[2].product_id
  /\ orders_df.rows[1].unit_price_at_order = products_df.rows[2].price

\* The regular files of the directory, in the order of the listing.
ListedFiles == SelectSeq(listing, LAMBDA f : IsFile(dir_entries, f))

\* C10: the bucket always holds the keys of a prefix of the directory's
\* files, in the listing's order: nothing uploaded is taken back, a failed
\* file and the files after it are never uploaded, and the run still returns
\* normally.
C10_PrefixUploaded ==
  /\ Len(uploads) <= Len(ListedFiles)
  /\ \A k \in 1..Len(uploads) : uploads[k] = "ecommerce_data/" \o ListedFiles[k]
  /\ pc \in {"upload_loop", "except", "returned"} /\ listing # <<>> =>
       Len(uploads) = Len(SelectSeq(SubSeq(listing, 1, visited),
                                    LAMBDA f : IsFile(dir_entries, f)))
  /\ UploadFailed /\ listing # <<>> =>
       /\ visited < Len(listing)
       /\ IsFile(dir_entries, listing[visited + 1])
       /\ "ecommerce_data/" \o listing[visited + 1] \notin Range(uploads)
  /\ UploadStarted => pc # "raised"

\* A run that returned after its second file failed: one key is in the
\* bucket, the others are not.
C10_Witness ==
  /\ UploadFailed
  /\ Len(uploads) = 1
  /\ Len(ListedFiles) >= 3
  /\ Printed("Error: UploadError")

====
